---- MODULE Spec2Model ----
\* Model of the service supervisor of src/server_manager.py (class ServerManager):
\* the status probe (check_server_status), the start handlers, stop_server,
\* force_kill_server, restart_server and the periodic status timer.
\*
\* The Tk main loop is single threaded: a handler runs to completion (its
\* time.sleep calls block the loop) before the next event is dispatched, so the
\* handlers never interleave with each other.  What does interleave with a
\* handler is the operating system: managed processes appear, bind the port and
\* exit between any two steps of a handler (the Env* actions).  Results of OS
\* calls that the program cannot control (a command failing, access denied, a
\* process ignoring a terminate signal, other connections in the netstat
\* listing) are inputs drawn with \E.
EXTENDS Naturals, Integers, Sequences, FiniteSets, TLC

\* ---------------------------------------------------------------- constants

\* self.config['port']
Port == 8080
\* self.config['server_timeout']: polls of the start loop
server_timeout == 15
\* restart_server: for i in range(10)
restart_wait == 10
\* force_kill_server: for round_num in range(3)
kill_rounds == 3
\* stop_server method 2: the images npm.cmd, npm.exe, npx.cmd
npm_images == 3

\* log: if lines > 1000
log_limit == 1000
\* log: self.log_text.delete('1.0', '100.0')
log_trim_end == 100

\* create_briefing_content: timedelta(days=2), in hours
two_days == 48

\* check_server_status: timeout=5 of the netstat call, in seconds
netstat_timeout == 5
\* check_server_status: timeout=3 of the tasklist call, in seconds
tasklist_timeout == 3

\* Bounds of the model (not program constants).
\* Longest time a probe is followed, in seconds.
MaxProbeSeconds == 12
\* Largest number of items in the fetched articles data.
MaxItems == 2
\* Largest number of log() calls.
MaxLogCalls == 1100
\* Largest number of live service (node ... rssfeed) processes.
MaxSvc == 2
\* Largest number of pending root.after(1000, check_server_status) callbacks.
MaxAfter == 1

\* pids of the model's process table
SystemPid == 4
ClientPid == 70
WrapPid == 80
OtherNodePid == 90
\* a port other than the configured one (local side of a client connection)
ClientPort == 50000
\* a well-known port some system service listens on
SystemPort == 445
\* datetime.now() of a create_briefing_content call, in hours
Now == 1000
\* wall-clock hours of the model's pubDate strings: one recent, one long past
RecentHour == 990
OldHour == 940

VARIABLES
    \* --- operating system (environment)
    svcProcs,               \* number of live node processes running rssfeed (pids 1..svcProcs)
    owner,                  \* who holds Port in LISTENING state: "none", "svc" (pid 1), "wrap" (WrapPid)
    \* --- fields of ServerManager
    last_status,            \* self.last_status: "None", "running", "node_running", "not_running"
    status_check_running,   \* self.status_check_running
    afterQ,                 \* pending root.after(1000, self.check_server_status) callbacks
    timers,                 \* pending root.after(status_check_interval, self.schedule_status_check) callbacks
    \* --- control: position of the running handler
    pc,
    inRestart,              \* the running stop/force kill/start was called by restart_server
    mode,                   \* "normal" or "silent" start
    \* --- locals of the running handler
    i,                      \* loop index of the start loop / the restart wait loop
    killed,                 \* stop_server: killed
    methods_tried,          \* stop_server: methods_tried
    round_num,              \* force_kill_server: round_num
    killed_any,             \* force_kill_server: killed_any
    kill_report,            \* force_kill_server: kill_report
    stopped,                \* restart_server: stopped
    \* --- what the user is told
    report,                 \* outcome of the last finished operation: [op, outcome, attempts]
    browserOpens,           \* webbrowser.open calls of the running start call
    \* --- history of the running operation (not program state)
    obs,                    \* what the last probe saw and returned
    entryProbe,             \* result of the probe at entry of the running start call
    spawns,                 \* subprocess.Popen calls of the running start call
    killIssued,             \* the running handler has issued a kill action (terminate, kill, taskkill)
    killSinceProbe,         \* a kill action was issued after the last probe
    everProbed,             \* some probe has run to its end (line 315) since construction
    entryDown,              \* at entry of the running stop the service was down (no process, port free)
    stopVerdict,            \* restart_server: what the verifying probe of its stop_server call returned
    afterStart,             \* the last handler that ran told a successful start; a stop_server call keeps it
    statusRequest,          \* a CHECK STATUS click made while the timer's probe ran: "none", "queued", "probed"
    npmRan,                 \* stop_server: taskkill commands of method 2 that ran (kept until method 3)
    \* --- the activity log (ServerManager.log on its own)
    log_text,               \* lines of self.log_text; an entry is the number of the log() call that wrote it
    log_calls,              \* log() calls so far
    \* --- the daily briefing (ServerManager.create_briefing_content on its own)
    briefing_items,         \* items of the articles data the last call fetched
    briefing_shown,         \* what the last call put in the text widget: "none", "error", "briefing"
    sections,               \* the four lists the last call handed to format_briefing
    \* --- one probe in time (ServerManager.check_server_status on its own)
    probe_at,               \* where the call is: "idle", "netstat", "psutil", "tasklist", "update", "returned"
    current_status,         \* its local current_status
    probe_elapsed,          \* seconds since the call began
    call_waited             \* seconds the pending OS call has taken so far

mainVars == <<svcProcs, owner, last_status, everProbed, status_check_running, afterQ, timers,
          pc, inRestart, mode, i, killed, methods_tried, round_num, killed_any,
          kill_report, stopped, report, browserOpens, obs, entryProbe, spawns, killIssued,
          killSinceProbe, entryDown, stopVerdict, afterStart, statusRequest, npmRan>>

logVars == <<log_text, log_calls>>
\* State of the operations that are checked on their own; the handlers of the
\* supervisor leave it alone.
briefingVars == <<briefing_items, briefing_shown, sections>>
probeVars == <<probe_at, current_status, probe_elapsed, call_waited>>
unitVars == <<logVars, briefingVars, probeVars>>

vars == <<mainVars, unitVars>>

envVars == <<svcProcs, owner>>
locals == <<i, killed, methods_tried, round_num, killed_any, kill_report, stopped>>

\* ---------------------------------------------------------------- OS facts

\* One line of `netstat -an` / `netstat -aon` output.
NetLine(l, f, s, p) == [local |-> l, foreign |-> f, state |-> s, pid |-> p]

\* The connection listing for the current OS state.  client: some process holds an
\* established connection to port Port of another endpoint; other: some other
\* port of this host is in LISTENING state.
Netstat(own, client, other) ==
    (IF own = "svc" THEN {NetLine(Port, 0, "LISTENING", 1)} ELSE {})
    \cup (IF own = "wrap" THEN {NetLine(Port, 0, "LISTENING", WrapPid)} ELSE {})
    \cup (IF client THEN {NetLine(ClientPort, Port, "ESTABLISHED", ClientPid)} ELSE {})
    \cup (IF other THEN {NetLine(SystemPort, 0, "LISTENING", SystemPid)} ELSE {})

\* f':{port} ' in line: the text ":8080 " ends the local or the foreign address column.
HasPortToken(l) == l.local = Port \/ l.foreign = Port

\* The process table: the service instances, the shell wrapper that may hold the
\* port, and (nodeOther) a node process that runs something else.
ProcTable(n, own, nodeOther) ==
    {[pid |-> k, name |-> "node.exe", cmdline |-> "tsx rssfeed.ts"] : k \in 1..n}
    \cup (IF own = "wrap"
            THEN {[pid |-> WrapPid, name |-> "cmd.exe", cmdline |-> "cmd /c npx tsx rssfeed.ts"]}
            ELSE {})
    \cup (IF nodeOther
            THEN {[pid |-> OtherNodePid, name |-> "node.exe", cmdline |-> "other.js"]}
            ELSE {})

\* 'node' in proc.info['name'].lower()
NameHasNode(p) == p.name \in {"node.exe", "node"}
\* any('rssfeed' in str(cmd).lower() for cmd in proc.info['cmdline'])
CmdHasRssfeed(p) == p.cmdline \in {"tsx rssfeed.ts", "cmd /c npx tsx rssfeed.ts"}
\* the filter of check_server_status and stop_server
MatchingPids(table) == {p.pid : p \in {q \in table : NameHasNode(q) /\ CmdHasRssfeed(q)}}
\* the filter of force_kill_server strategy 1 and of the tasklist/taskkill image name
NodePids(table) == {p.pid : p \in {q \in table : NameHasNode(q)}}

\* The pid that holds the port (meaningful when owner # "none").
OwnerPid == IF owner = "svc" THEN 1 ELSE WrapPid

\* The OS state after the processes in K have died: the surviving service
\* instances are renumbered 1..n, and the port is free when its holder died.
ProcsDie(K) ==
    /\ svcProcs' = svcProcs - Cardinality(K \cap (1..svcProcs))
    /\ owner' = IF owner # "none" /\ OwnerPid \in K THEN "none" ELSE owner

\* The service instances that do not hold the port are interchangeable (ProcsDie
\* renumbers the survivors): of those, the ones that die are taken to be the
\* ones with the highest pids.
Interchangeable == (IF owner = "svc" THEN 2 ELSE 1)..svcProcs
CanonKill(K) ==
    \A k \in K \cap Interchangeable : (k + 1 \in Interchangeable) => (k + 1 \in K)

\* The pids under a taskkill /t of the npm/npx wrappers: what they started.
TreePids == (1..svcProcs) \cup (IF owner = "wrap" THEN {WrapPid} ELSE {})

\* pids_to_kill of stop_server method 4 and force_kill_server strategy 3: the
\* fifth column of every line holding ":8080 " and LISTENING or ESTABLISHED.
PortKillPids(lines) ==
    {l.pid : l \in {k \in lines : HasPortToken(k)
                                  /\ k.state \in {"LISTENING", "ESTABLISHED"}}}

\* The owning process of Get-NetTCPConnection -LocalPort ... State Listen.
ListenOwnerPids == IF owner = "none" THEN {} ELSE {OwnerPid}

\* The service is really down: no service process and nobody listening on Port.
ServiceDown == svcProcs = 0 /\ owner = "none"

\* ---------------------------------------------------------------- the probe

\* Outcomes of the probe's OS calls that the program does not control: the
\* netstat call fails (nsErr), the listing holds a client connection to port
\* Port elsewhere (client) or another listening port (other), process_iter fails
\* (psErr), tasklist fails (tlErr), a node process that is not the service
\* exists (nodeOther), a widget update raises (uiErr).
AllProbeInputs ==
    [nsErr : BOOLEAN, client : BOOLEAN, other : BOOLEAN, psErr : BOOLEAN,
     tlErr : BOOLEAN, nodeOther : BOOLEAN, uiErr : BOOLEAN]

\* Method 1: f':{port} ' in result.stdout and 'LISTENING' in result.stdout
is_listening(lines) ==
    (\E l \in lines : HasPortToken(l)) /\ (\E l \in lines : l.state = "LISTENING")

\* Some single line shows Port as local port in LISTENING state.
PortLineListening(lines) ==
    \E l \in lines : l.local = Port /\ l.state = "LISTENING"

Method1(in) ==
    IF ~in.nsErr /\ is_listening(Netstat(owner, in.client, in.other))
        THEN "running" ELSE "None"

\* Method2 that gives up when the netstat call of method 1 has failed.
Method2_AbortsAfterNetstatError(in, cur) ==
    IF cur # "running" /\ ~in.nsErr /\ ~in.psErr
          /\ MatchingPids(ProcTable(svcProcs, owner, in.nodeOther)) # {}
        THEN "node_running" ELSE cur

\* Method2 that runs after a listening port was found and takes the result back
\* when no process matches.
Method2_DowngradesUnmatched(in, cur) ==
    IF in.psErr THEN cur
    ELSE IF MatchingPids(ProcTable(svcProcs, owner, in.nodeOther)) # {}
            THEN (IF cur = "running" THEN "running" ELSE "node_running")
            ELSE "None"

Method2(in, cur) ==
    IF cur # "running" /\ ~in.psErr
          /\ MatchingPids(ProcTable(svcProcs, owner, in.nodeOther)) # {}
        THEN "node_running" ELSE cur

Method3(in, cur) ==
    IF cur = "None"
        THEN IF in.tlErr THEN "not_running"
             ELSE IF NodePids(ProcTable(svcProcs, owner, in.nodeOther)) # {}
                     THEN "node_running" ELSE "None"
        ELSE cur

\* current_status at line 315
CurrentStatus(in) == Method3(in, Method2(in, Method1(in)))

\* An input that no method of this probe reads is left at FALSE, so that each
\* distinct run of the probe is drawn once.
ReadByProbe(in) ==
    /\ (in.nsErr \/ owner # "none") => (~in.client /\ ~in.other)
    /\ in.client = in.other
    /\ in.uiErr => (~in.nsErr /\ ~in.psErr /\ ~in.tlErr /\ ~in.nodeOther)
    /\ Method1(in) = "running" => ~in.psErr
    /\ Method2(in, Method1(in)) # "None" => (~in.tlErr /\ ~in.nodeOther)
    /\ in.tlErr => ~in.nodeOther

ProbeInputs == {in \in AllProbeInputs : ReadByProbe(in)}

\* The branch of lines 299-313 taken for current_status cur, named by the state
\* its status line tells: running, node_running, and not_running for 'not_running'
\* and for None.
StatusBranch(cur) == IF cur \in {"running", "node_running"} THEN cur ELSE "not_running"

\* Lines 302, 307, 312: the status line of the branch is written to the log when
\* self.last_status differs from the literal of that branch.
LogsStatusLine(cur) == last_status # StatusBranch(cur)

\* What one run of check_server_status saw: ns/ps/tl say how each method ended;
\* relog says that it wrote a status line to the log for the state that the
\* last probe that ran to its end had found too.  A widget update that raises
\* does so before the self.log call of its branch.
Observation(in) ==
    LET lines == Netstat(owner, in.client, in.other)
        m1 == Method1(in)
        m2 == Method2(in, m1)
    IN [res |-> IF in.uiErr THEN "error" ELSE CurrentStatus(in),
        relog |-> /\ ~in.uiErr
                  /\ LogsStatusLine(CurrentStatus(in))
                  /\ everProbed
                  /\ StatusBranch(last_status) = StatusBranch(CurrentStatus(in)),
        ns  |-> IF in.nsErr THEN "err"
                ELSE IF PortLineListening(lines) THEN "port"
                ELSE IF is_listening(lines) THEN "cross" ELSE "no",
        ps  |-> IF m1 = "running" THEN "skip"
                ELSE IF in.psErr THEN "err"
                ELSE IF MatchingPids(ProcTable(svcProcs, owner, in.nodeOther)) # {}
                        THEN "match" ELSE "nomatch",
        tl  |-> IF m2 # "None" THEN "skip"
                ELSE IF in.tlErr THEN "err"
                ELSE IF NodePids(ProcTable(svcProcs, owner, in.nodeOther)) # {}
                        THEN "node" ELSE "none"]

NoObs == [res |-> "unprobed", relog |-> FALSE, ns |-> "skip", ps |-> "skip", tl |-> "skip"]

\* The value check_server_status returns: current_status == 'running', and False
\* from the handlers of lines 318-326.
ProbeReturns(in) == ~in.uiErr /\ CurrentStatus(in) = "running"

\* check_server_status that records only a state it has determined: a probe
\* that found nothing leaves last_status as it was.
check_server_status_KeepsOnNone(in) ==
    /\ last_status' = IF in.uiErr \/ CurrentStatus(in) = "None"
                         THEN last_status ELSE CurrentStatus(in)
    /\ obs' = Observation(in)
    /\ killSinceProbe' = FALSE
    /\ everProbed' = (everProbed \/ ~in.uiErr)

\* The state change of one call of check_server_status.  When a widget update
\* raises, line 315 is not reached and last_status keeps its value.
check_server_status(in) ==
    /\ last_status' = IF in.uiErr THEN last_status ELSE CurrentStatus(in)
    /\ obs' = Observation(in)
    /\ killSinceProbe' = FALSE
    /\ everProbed' = (everProbed \/ ~in.uiErr)

\* ---------------------------------------------------------------- reports

\* The level of the self.log call (and the kind of message box) that tells the
\* outcome: lines 331/389, 352/410, 364/418, 370/424, 610, 613, 616, 815, 818, 821.
ReportLevel(out) ==
    CASE out = "started" -> "success"
      [] out = "already_running" -> "warning"
      [] out = "not_listening" -> "warning"
      [] out = "start_failed" -> "error"
      [] out = "stopped" -> "success"
      [] out = "already_stopped" -> "info"
      [] out = "killed" -> "success"
      [] out = "nothing_to_kill" -> "info"
      [] out = "failed" -> "error"
      [] OTHER -> "none"

NoReport == [op |-> "none", outcome |-> "none", level |-> "none", attempts |-> <<>>]
\* What the user is told when operation o ends with outcome out; att is the
\* list of attempts the message carries.
Report(o, out, att) ==
    [op |-> o, outcome |-> out, level |-> ReportLevel(out), attempts |-> att]

ResetLocals ==
    /\ i' = 0
    /\ killed' = FALSE
    /\ methods_tried' = <<>>
    /\ round_num' = 0
    /\ killed_any' = FALSE
    /\ kill_report' = <<>>
    /\ stopped' = FALSE

\* ---------------------------------------------------------------- the daily briefing

\* A pubDate string.  text: "iso" for an ISO 8601 timestamp, "rfc822" for a
\* date in another format, "" for the empty string or a missing key; wall: the
\* wall-clock hour it names; zone: its zone suffix, "" when it has none.
PubDate(t, w, z) == [text |-> t, wall |-> w, zone |-> z]

PubDates ==
    {PubDate("iso", w, z) : w \in {RecentHour, OldHour}, z \in {"", "Z", "+00:00", "-05:00"}}
    \cup {PubDate("rfc822", OldHour, "GMT"), PubDate("", 0, "")}

\* An item of the articles data: its pubDate and its category.  The titles of
\* the model's items hold none of the terms that lines 1642-1649 look for.
Articles ==
    [pubDate : PubDates,
     category : {"people", "transaction", "availabilities", "industrial"}]

ItemLists == UNION {[1..n -> Articles] : n \in 0..MaxItems}

SectionNames == {"relevant_articles", "transactions", "availabilities", "people_news"}
NoSections == [sec \in SectionNames |-> <<>>]

\* pub_date_str.replace('Z', '+00:00')
ReplaceZ(str) == IF str.zone = "Z" THEN [str EXCEPT !.zone = "+00:00"] ELSE str

\* datetime.fromisoformat accepts an ISO timestamp without zone or with a
\* numeric offset, and raises ValueError for anything else.
IsoParses(str) == str.text = "iso" /\ str.zone \in {"", "+00:00", "-05:00"}

\* The datetime fromisoformat returns: offset-aware exactly when the string
\* carries an offset.
fromisoformat(str) == [wall |-> str.wall, aware |-> str.zone # ""]

\* Lines 1611-1612: now = datetime.now() is offset-naive.
two_days_ago == [wall |-> Now - two_days, aware |-> FALSE]

\* a > b on datetimes raises TypeError when one is offset-aware and the other
\* is offset-naive.
Comparable(a, b) == a.aware = b.aware

\* One iteration of the loop of lines 1615-1627: the item is appended to
\* recent_articles.  An empty pubDate skips the item; an exception of the
\* parse or of the comparison is caught by the bare except, which appends it.
IsRecent(item) ==
    LET str == item.pubDate IN
    IF str.text = "" THEN FALSE
    ELSE IF ~IsoParses(ReplaceZ(str)) THEN TRUE
    ELSE IF ~Comparable(fromisoformat(ReplaceZ(str)), two_days_ago) THEN TRUE
    ELSE fromisoformat(ReplaceZ(str)).wall > two_days_ago.wall

\* Lines 1635-1655: the section an article of recent_articles goes to.
SectionOf(article) ==
    IF article.category = "people" THEN "people_news"
    ELSE IF article.category = "transaction" THEN "transactions"
    ELSE IF article.category = "availabilities" THEN "availabilities"
    ELSE "relevant_articles"

\* Lines 1617-1657: the articles of items that pass the date filter and are
\* classified into section sec, in the order of items.
RECURSIVE SectionItems(_, _)
SectionItems(sec, items) ==
    IF items = <<>> THEN <<>>
    ELSE LET rest == SectionItems(sec, Tail(items))
         IN IF IsRecent(Head(items)) /\ SectionOf(Head(items)) = sec
               THEN <<Head(items)>> \o rest
               ELSE rest

\* ---------------------------------------------------------------- Init

Init ==
    /\ svcProcs \in 0..1
    /\ owner \in {"none", "wrap"} \cup (IF svcProcs > 0 THEN {"svc"} ELSE {})
    /\ last_status = "None"
    /\ everProbed = FALSE
    /\ status_check_running = FALSE
    /\ afterQ = 0
    /\ timers = 0
    /\ pc = "ctor_tick"
    /\ inRestart = FALSE
    /\ mode = "normal"
    /\ i = 0
    /\ killed = FALSE
    /\ methods_tried = <<>>
    /\ round_num = 0
    /\ killed_any = FALSE
    /\ kill_report = <<>>
    /\ stopped = FALSE
    /\ report = NoReport
    /\ browserOpens = 0
    /\ obs = NoObs
    /\ entryProbe = "none"
    /\ spawns = 0
    /\ killIssued = FALSE
    /\ killSinceProbe = FALSE
    /\ entryDown = FALSE
    /\ stopVerdict = "none"
    /\ afterStart = FALSE
    /\ statusRequest = "none"
    /\ npmRan = 0
    /\ log_text = <<>>
    /\ log_calls = 0
    /\ briefing_items = <<>>
    /\ briefing_shown = "none"
    /\ sections = NoSections
    /\ probe_at = "idle"
    /\ current_status = "None"
    /\ probe_elapsed = 0
    /\ call_waited = 0

\* ---------------------------------------------------------------- environment

\* A service process starts listening on the port.
EnvBind ==
    /\ pc # "done"
    /\ svcProcs > 0 /\ owner = "none"
    /\ owner' = "svc"
    /\ UNCHANGED <<svcProcs, last_status, everProbed, status_check_running, afterQ,
                   pc, inRestart, mode, locals, report, browserOpens, obs, entryProbe,
                   spawns, killIssued, killSinceProbe, entryDown,
                   stopVerdict, afterStart, statusRequest, npmRan>>
    /\ UNCHANGED timers
    /\ UNCHANGED unitVars

\* A service process exits by itself; losesPort: it was the one holding the port.
EnvExit ==
    /\ pc # "done"
    /\ svcProcs > 0
    /\ \E losesPort \in BOOLEAN :
        /\ losesPort => owner = "svc"
        /\ (owner = "svc" /\ svcProcs = 1) => losesPort
        /\ svcProcs' = svcProcs - 1
        /\ owner' = IF losesPort THEN "none" ELSE owner
    /\ UNCHANGED <<last_status, everProbed, status_check_running, afterQ,
                   pc, inRestart, mode, locals, report, browserOpens, obs, entryProbe,
                   spawns, killIssued, killSinceProbe, entryDown,
                   stopVerdict, afterStart, statusRequest, npmRan>>
    /\ UNCHANGED timers
    /\ UNCHANGED unitVars

\* Somebody else starts an instance of the service (a terminal, a scheduled task).
EnvSpawn ==
    /\ pc # "done"
    /\ svcProcs < MaxSvc
    /\ svcProcs' = svcProcs + 1
    /\ UNCHANGED <<owner, last_status, everProbed, status_check_running, afterQ,
                   pc, inRestart, mode, locals, report, browserOpens, obs, entryProbe,
                   spawns, killIssued, killSinceProbe, entryDown,
                   stopVerdict, afterStart, statusRequest, npmRan>>
    /\ UNCHANGED timers
    /\ UNCHANGED unitVars

\* A process that matches neither filter takes or releases the port.
EnvWrap ==
    /\ pc # "done"
    /\ owner \in {"none", "wrap"}
    /\ owner' = IF owner = "none" THEN "wrap" ELSE "none"
    /\ UNCHANGED <<svcProcs, last_status, everProbed, status_check_running, afterQ,
                   pc, inRestart, mode, locals, report, browserOpens, obs, entryProbe,
                   spawns, killIssued, killSinceProbe, entryDown,
                   stopVerdict, afterStart, statusRequest, npmRan>>
    /\ UNCHANGED timers
    /\ UNCHANGED unitVars

\* ---------------------------------------------------------------- construction and status handlers

\* __init__ -> setup_ui -> schedule_status_check (line 172): the first probe;
\* line 186 arms the first timer.
CtorTick ==
    /\ pc = "ctor_tick"
    /\ \E in \in ProbeInputs : check_server_status(in)
    /\ status_check_running' = FALSE
    /\ pc' = "ctor_check"
    /\ UNCHANGED <<envVars, afterQ, inRestart, mode, locals, report,
                   browserOpens, entryProbe, spawns, killIssued, entryDown,
                   stopVerdict, afterStart, statusRequest, npmRan>>
    /\ timers' = timers + 1
    /\ UNCHANGED unitVars

\* __init__ -> check_initial_status (line 53).
check_initial_status ==
    /\ pc = "ctor_check"
    /\ \E in \in ProbeInputs : check_server_status(in)
    /\ pc' = "idle"
    /\ UNCHANGED <<envVars, status_check_running, afterQ, inRestart,
                   mode, locals, report, browserOpens, entryProbe, spawns, killIssued, entryDown,
                   stopVerdict, afterStart, statusRequest, npmRan>>
    /\ UNCHANGED timers
    /\ UNCHANGED unitVars

\* The main loop takes the next event: no handler runs, and no event that was
\* queued earlier is waiting (events are dispatched in the order they came).
LoopIdle == pc = "idle" /\ statusRequest = "none"

\* A timer armed by line 186 fires and the callback begins, lines 176-177: when
\* the flag is clear it is set and the probe is called; when it is set the tick
\* is skipped and line 186 arms the next timer at once.
schedule_status_check ==
    /\ LoopIdle
    /\ timers > 0
    /\ IF ~status_check_running
          THEN /\ status_check_running' = TRUE
               /\ timers' = timers - 1
               /\ pc' = "tick"
          ELSE UNCHANGED <<status_check_running, timers, pc>>
    /\ UNCHANGED unitVars
    /\ UNCHANGED <<envVars, last_status, everProbed, afterQ, inRestart, mode, locals, report,
                   browserOpens, obs, entryProbe, spawns, killIssued, killSinceProbe,
                   entryDown, stopVerdict, afterStart, statusRequest, npmRan>>

\* TickProbe whose flag is cleared only on the normal path: a probe that ends in
\* an exception handler leaves it set.
TickProbe_KeepsFlagOnRaise ==
    /\ pc = "tick"
    /\ \E in \in ProbeInputs :
        /\ check_server_status(in)
        /\ status_check_running' = in.uiErr
    /\ pc' = "idle"
    /\ timers' = timers + 1
    /\ UNCHANGED unitVars
    /\ UNCHANGED <<envVars, afterQ, inRestart, mode, locals, report,
                   browserOpens, entryProbe, spawns, killIssued, entryDown,
                   stopVerdict, afterStart, statusRequest, npmRan>>

\* Lines 178-186: the probe of the timer callback returns, or raises into the
\* except clause of line 180 (a probe whose handlers of lines 318-326 raise
\* again); the finally clause clears the flag and line 186 arms the next timer.
TickProbe ==
    /\ pc = "tick"
    /\ \E in \in ProbeInputs : check_server_status(in)
    /\ status_check_running' = FALSE
    /\ pc' = "idle"
    /\ UNCHANGED <<envVars, afterQ, inRestart, mode, locals, report,
                   browserOpens, entryProbe, spawns, killIssued, entryDown,
                   stopVerdict, afterStart, statusRequest, npmRan>>
    /\ timers' = timers + 1
    /\ UNCHANGED unitVars

\* The user clicks CHECK STATUS while the probe of the timer callback runs: the
\* click waits in the event queue of the main loop.
ClickStatus ==
    /\ pc = "tick"
    /\ statusRequest = "none"
    /\ statusRequest' = "queued"
    /\ UNCHANGED npmRan
    /\ UNCHANGED <<envVars, last_status, everProbed, status_check_running, afterQ, pc, inRestart,
                   mode, locals, report, browserOpens, obs, entryProbe, spawns,
                   killIssued, killSinceProbe, entryDown, stopVerdict, afterStart>>
    /\ UNCHANGED timers
    /\ UNCHANGED unitVars

\* The CHECK STATUS button, lines 862-866: the handler calls the probe (the rest
\* of it only writes log lines), also for a click that waited in the queue.
check_status ==
    /\ pc = "idle"
    /\ \E in \in ProbeInputs : check_server_status(in)
    /\ IF statusRequest = "queued"
          THEN /\ statusRequest' = "probed"
               /\ pc' = "done"
          ELSE UNCHANGED <<statusRequest, pc>>
    /\ UNCHANGED npmRan
    /\ UNCHANGED <<envVars, status_check_running, afterQ, inRestart,
                   mode, locals, report, browserOpens, entryProbe, spawns, killIssued, entryDown,
                   stopVerdict, afterStart>>
    /\ UNCHANGED timers
    /\ UNCHANGED unitVars

\* A callback queued by root.after(1000, self.check_server_status) runs.
AfterCheck ==
    /\ LoopIdle
    /\ afterQ > 0
    /\ afterQ' = afterQ - 1
    /\ \E in \in ProbeInputs : check_server_status(in)
    /\ UNCHANGED <<envVars, status_check_running, pc, inRestart,
                   mode, locals, report, browserOpens, entryProbe, spawns, killIssued, entryDown,
                   stopVerdict, afterStart, statusRequest, npmRan>>
    /\ UNCHANGED timers
    /\ UNCHANGED unitVars

\* ---------------------------------------------------------------- start

\* StartEntry without the early return of lines 331-332: the spawn follows
\* whatever the probe at entry returned.
StartEntry_NoEarlyReturn(m) ==
    /\ \E in \in ProbeInputs :
        /\ check_server_status(in)
        /\ entryProbe' = IF ProbeReturns(in) THEN "running" ELSE "not_running"
        /\ report' = NoReport
        /\ pc' = "st_spawn"
    /\ mode' = m
    /\ ResetLocals
    /\ browserOpens' = 0
    /\ spawns' = 0
    /\ killIssued' = FALSE
    /\ stopVerdict' = "none"
    /\ afterStart' = FALSE
    /\ UNCHANGED <<statusRequest, npmRan>>
    /\ UNCHANGED <<envVars, status_check_running, afterQ, inRestart, entryDown>>
    /\ UNCHANGED timers
    /\ UNCHANGED unitVars

\* Lines 330-335 / 388-393: the probe at entry and the early return.
StartEntry(m) ==
    /\ \E in \in ProbeInputs :
        /\ check_server_status(in)
        /\ entryProbe' = IF ProbeReturns(in) THEN "running" ELSE "not_running"
        /\ IF ProbeReturns(in)
              THEN /\ report' = Report("start", "already_running", <<>>)
                   /\ pc' = "done"
              ELSE /\ report' = NoReport
                   /\ pc' = "st_spawn"
    /\ mode' = m
    /\ ResetLocals
    /\ browserOpens' = 0
    /\ spawns' = 0
    /\ killIssued' = FALSE
    /\ stopVerdict' = "none"
    /\ afterStart' = FALSE
    /\ UNCHANGED <<statusRequest, npmRan>>
    /\ UNCHANGED <<envVars, status_check_running, afterQ, inRestart,
                   entryDown>>
    /\ UNCHANGED timers
    /\ UNCHANGED unitVars

start_server_normal ==
    /\ LoopIdle
    /\ afterQ < MaxAfter
    /\ inRestart = FALSE
    /\ StartEntry("normal")

start_server_silent ==
    /\ LoopIdle
    /\ afterQ < MaxAfter
    /\ inRestart = FALSE
    /\ StartEntry("silent")

\* StartSpawn with one retry of a failed subprocess.Popen.
StartSpawn_Retries ==
    /\ pc = "st_spawn"
    /\ spawns' = spawns + 1
    /\ \E ok \in BOOLEAN, appears \in BOOLEAN :
        /\ appears => (ok /\ svcProcs < MaxSvc)
        /\ svcProcs' = IF appears THEN svcProcs + 1 ELSE svcProcs
        /\ IF ok
              THEN /\ pc' = "st_poll"
                   /\ UNCHANGED report
              ELSE IF spawns = 0
                      THEN /\ pc' = "st_spawn"
                           /\ UNCHANGED report
                      ELSE /\ report' = Report("start", "start_failed", <<>>)
                           /\ pc' = "done"
    /\ UNCHANGED <<owner, inRestart, last_status, everProbed, status_check_running, afterQ, mode, locals,
                   browserOpens, obs, entryProbe, killIssued, killSinceProbe, entryDown,
                   stopVerdict, afterStart, statusRequest, npmRan>>
    /\ UNCHANGED timers
    /\ UNCHANGED unitVars

\* Lines 337-346 / 395-404: subprocess.Popen.  ok: the call returned; appears: the
\* shell it started brought up a node process running rssfeed.  The handle kept in
\* self.server_process is never read again and is not part of the state.
StartSpawn ==
    /\ pc = "st_spawn"
    /\ spawns' = spawns + 1
    /\ \E ok \in BOOLEAN, appears \in BOOLEAN :
        /\ appears => (ok /\ svcProcs < MaxSvc)
        /\ svcProcs' = IF appears THEN svcProcs + 1 ELSE svcProcs
        /\ IF ok
              THEN /\ pc' = "st_poll"
                   /\ UNCHANGED report
              ELSE /\ report' = Report("start", "start_failed", <<>>)
                   /\ pc' = "done"
    /\ UNCHANGED <<owner, inRestart, last_status, everProbed, status_check_running, afterQ, mode, locals,
                   browserOpens, obs, entryProbe, killIssued, killSinceProbe, entryDown,
                   stopVerdict, afterStart, statusRequest, npmRan>>
    /\ UNCHANGED timers
    /\ UNCHANGED unitVars

\* StartPoll that takes a first poll returning running for a fluke and polls
\* once more.
StartPoll_IgnoresFirst ==
    /\ pc = "st_poll"
    /\ i < server_timeout
    /\ \E in \in ProbeInputs :
        /\ check_server_status(in)
        /\ IF ProbeReturns(in) /\ i > 0
              THEN /\ report' = Report("start", "started", <<>>)
                   /\ browserOpens' = IF mode = "normal" THEN browserOpens + 1 ELSE browserOpens
                   /\ pc' = "done"
                   /\ UNCHANGED i
              ELSE /\ i' = i + 1
                   /\ pc' = IF i + 1 = server_timeout THEN "st_timeout" ELSE "st_poll"
                   /\ UNCHANGED <<report, browserOpens>>
    /\ UNCHANGED <<envVars, inRestart, status_check_running, afterQ, mode, killed,
                   methods_tried, round_num, killed_any, kill_report, stopped,
                   entryProbe, spawns, killIssued, entryDown,
                   stopVerdict, afterStart, statusRequest, npmRan>>
    /\ UNCHANGED timers
    /\ UNCHANGED unitVars

\* StartPoll that calls launch_browser in both start handlers.
StartPoll_OpensInSilent ==
    /\ pc = "st_poll"
    /\ i < server_timeout
    /\ \E in \in ProbeInputs :
        /\ check_server_status(in)
        /\ IF ProbeReturns(in)
              THEN /\ report' = Report("start", "started", <<>>)
                   /\ browserOpens' = browserOpens + 1
                   /\ pc' = "done"
                   /\ UNCHANGED i
              ELSE /\ i' = i + 1
                   /\ pc' = IF i + 1 = server_timeout THEN "st_timeout" ELSE "st_poll"
                   /\ UNCHANGED <<report, browserOpens>>
    /\ UNCHANGED <<envVars, inRestart, status_check_running, afterQ, mode, killed,
                   methods_tried, round_num, killed_any, kill_report, stopped,
                   entryProbe, spawns, killIssued, entryDown,
                   stopVerdict, afterStart, statusRequest, npmRan>>
    /\ UNCHANGED timers
    /\ UNCHANGED unitVars

\* One iteration of the loop of lines 349-361 / 407-415: sleep, probe, return on
\* success (start_server_normal then calls launch_browser).
StartPoll ==
    /\ pc = "st_poll"
    /\ i < server_timeout
    /\ \E in \in ProbeInputs :
        /\ check_server_status(in)
        /\ IF ProbeReturns(in)
              THEN /\ report' = Report("start", "started", <<>>)
                   /\ browserOpens' = IF mode = "normal" THEN browserOpens + 1 ELSE browserOpens
                   /\ pc' = "done"
                   /\ UNCHANGED i
              ELSE /\ i' = i + 1
                   /\ pc' = IF i + 1 = server_timeout THEN "st_timeout" ELSE "st_poll"
                   /\ UNCHANGED <<report, browserOpens>>
    /\ UNCHANGED <<envVars, inRestart, status_check_running, afterQ, mode, killed,
                   methods_tried, round_num, killed_any, kill_report, stopped,
                   entryProbe, spawns, killIssued, entryDown,
                   stopVerdict, afterStart, statusRequest, npmRan>>
    /\ UNCHANGED timers
    /\ UNCHANGED unitVars

\* StartTimeout that cleans up after itself: the service processes are killed
\* when the loop runs out.
StartTimeout_KillsSpawned ==
    /\ pc = "st_timeout"
    /\ report' = Report("start", "not_listening", <<>>)
    /\ afterQ' = afterQ + 1
    /\ pc' = "done"
    /\ ProcsDie(1..svcProcs)
    /\ killIssued' = TRUE
    /\ killSinceProbe' = TRUE
    /\ UNCHANGED <<inRestart, last_status, everProbed, status_check_running, mode,
                   locals, browserOpens, obs, entryProbe, spawns, entryDown,
                   stopVerdict, afterStart, statusRequest, npmRan>>
    /\ UNCHANGED timers
    /\ UNCHANGED unitVars

\* Lines 363-367 / 417-421: the loop ran out.
StartTimeout ==
    /\ pc = "st_timeout"
    /\ report' = Report("start", "not_listening", <<>>)
    /\ afterQ' = afterQ + 1
    /\ pc' = "done"
    /\ UNCHANGED <<envVars, inRestart, last_status, everProbed, status_check_running, mode,
                   locals, browserOpens, obs, entryProbe, spawns, killIssued, killSinceProbe,
                   entryDown,
                   stopVerdict, afterStart, statusRequest, npmRan>>
    /\ UNCHANGED timers
    /\ UNCHANGED unitVars

\* ---------------------------------------------------------------- stop

\* Lines 430-448: entry of stop_server and method 1, the terminate pass.
\* iterErr: the loop raises at some process, which abandons method 1 (line
\* 464); delivered: terminate() returned for some matching process before
\* that; K: the processes that exit on the signal.
StopServer(fromRestart) ==
    /\ \E iterErr \in BOOLEAN, delivered \in BOOLEAN,
          K \in SUBSET MatchingPids(ProcTable(svcProcs, owner, FALSE)) :
        LET targets == MatchingPids(ProcTable(svcProcs, owner, FALSE)) IN
        /\ delivered => targets # {}
        /\ K # {} => delivered
        /\ CanonKill(K)
        /\ ProcsDie(K)
        /\ killed' = delivered
        /\ killIssued' = (delivered \/ (targets # {} /\ ~iterErr))
        /\ killSinceProbe' = (killSinceProbe \/ delivered \/ (targets # {} /\ ~iterErr))
        /\ pc' = IF iterErr THEN "sp_npm" ELSE "sp_kill"
    /\ methods_tried' = <<"psutil node.exe kill">>
    /\ entryDown' = ServiceDown
    /\ stopVerdict' = "none"
    /\ afterStart' = (afterStart /\ ~fromRestart)
    /\ UNCHANGED <<statusRequest, npmRan>>
    /\ inRestart' = fromRestart
    /\ report' = NoReport
    /\ i' = 0
    /\ round_num' = 0
    /\ killed_any' = FALSE
    /\ kill_report' = <<>>
    /\ stopped' = FALSE
    /\ obs' = NoObs
    /\ UNCHANGED <<last_status, everProbed, status_check_running, afterQ, mode,
                   browserOpens, entryProbe, spawns>>
    /\ UNCHANGED timers
    /\ UNCHANGED unitVars

stop_server ==
    /\ LoopIdle
    /\ StopServer(FALSE)

\* Lines 625-708: debug_stop_server lists processes and calls stop_server.
debug_stop_server ==
    /\ LoopIdle
    /\ StopServer(FALSE)

\* Lines 450-462: time.sleep(2), then kill() for every process that still matches.
StopForceKill ==
    /\ pc = "sp_kill"
    /\ \E iterErr \in BOOLEAN,
          K \in SUBSET MatchingPids(ProcTable(svcProcs, owner, FALSE)) :
        LET targets == MatchingPids(ProcTable(svcProcs, owner, FALSE)) IN
        /\ CanonKill(K)
        /\ ProcsDie(K)
        /\ killed' = (killed \/ K # {})
        /\ killIssued' = (killIssued \/ K # {} \/ (targets # {} /\ ~iterErr))
        /\ killSinceProbe' = (killSinceProbe \/ K # {} \/ (targets # {} /\ ~iterErr))
    /\ pc' = "sp_npm"
    /\ UNCHANGED <<last_status, everProbed, status_check_running, afterQ, inRestart,
                   mode, i, methods_tried, round_num, killed_any, kill_report, stopped,
                   report, browserOpens, obs, entryProbe, spawns, entryDown,
                   stopVerdict, afterStart, statusRequest, npmRan>>
    /\ UNCHANGED timers
    /\ UNCHANGED unitVars

\* Lines 467-506: taskkill /f /im npm.cmd, npm.exe, npx.cmd /t in one try block.
\* ran: the commands that ran (one that times out or raises ends the block);
\* hit: one of them returned 0; K: the processes of the killed trees (a tree
\* kill that fails part way returns non-zero).
StopNpmKill ==
    /\ pc = "sp_npm"
    /\ \E hit \in BOOLEAN, K \in SUBSET TreePids, ran \in 1..npm_images :
        /\ ran = 1 => ~hit
        /\ CanonKill(K)
        /\ ProcsDie(K)
        /\ killed' = (killed \/ hit)
        /\ npmRan' = ran
    /\ methods_tried' = Append(methods_tried, "npm processes kill")
    /\ killIssued' = TRUE
    /\ killSinceProbe' = TRUE
    /\ pc' = "sp_node"
    /\ UNCHANGED <<last_status, everProbed, status_check_running, afterQ, inRestart,
                   mode, i, round_num, killed_any, kill_report, stopped,
                   report, browserOpens, obs, entryProbe, spawns, entryDown,
                   stopVerdict, afterStart, statusRequest>>
    /\ UNCHANGED timers
    /\ UNCHANGED unitVars

\* Lines 508-524: if not killed, taskkill /f /im node.exe /t.  K: the node
\* processes it killed; rc0: it returned 0.
StopTaskkillNode ==
    /\ pc = "sp_node"
    /\ IF killed
          THEN UNCHANGED <<envVars, killed, methods_tried, killIssued, killSinceProbe>>
          ELSE /\ \E nodeOther \in BOOLEAN, rc0 \in BOOLEAN,
                     K \in SUBSET NodePids(ProcTable(svcProcs, owner, TRUE)) :
                    /\ K \subseteq NodePids(ProcTable(svcProcs, owner, nodeOther))
                    /\ nodeOther => OtherNodePid \in K
                    /\ rc0 => K # {}
                    /\ CanonKill(K)
                    /\ ProcsDie(K)
                    /\ killed' = rc0
               /\ methods_tried' = Append(methods_tried, "taskkill node.exe")
               /\ killIssued' = TRUE
               /\ killSinceProbe' = TRUE
    /\ pc' = "sp_port"
    /\ npmRan' = 0
    /\ UNCHANGED <<last_status, everProbed, status_check_running, afterQ, inRestart,
                   mode, i, round_num, killed_any, kill_report, stopped,
                   report, browserOpens, obs, entryProbe, spawns, entryDown,
                   stopVerdict, afterStart, statusRequest>>
    /\ UNCHANGED timers
    /\ UNCHANGED unitVars

\* Lines 526-568: netstat -aon, then taskkill /f /pid for every pid found.
\* K: the pids whose taskkill returned 0.
StopPortKill ==
    /\ pc = "sp_port"
    /\ \E nsErr \in BOOLEAN, client \in BOOLEAN,
          K \in SUBSET PortKillPids(Netstat(owner, TRUE, FALSE)) :
        LET pids == IF nsErr THEN {} ELSE PortKillPids(Netstat(owner, client, FALSE)) IN
        /\ nsErr => ~client
        /\ K \subseteq pids
        /\ CanonKill(K)
        /\ ProcsDie(K)
        /\ killed' = (killed \/ K # {})
        /\ killIssued' = (killIssued \/ pids # {})
        /\ killSinceProbe' = (killSinceProbe \/ pids # {})
    /\ methods_tried' = Append(methods_tried, "port 8080 kill")
    /\ pc' = "sp_ps"
    /\ UNCHANGED <<last_status, everProbed, status_check_running, afterQ, inRestart,
                   mode, i, round_num, killed_any, kill_report, stopped,
                   report, browserOpens, obs, entryProbe, spawns, entryDown,
                   stopVerdict, afterStart, statusRequest, npmRan>>
    /\ UNCHANGED timers
    /\ UNCHANGED unitVars

\* Lines 570-601: PowerShell lists the owning process of the listening port,
\* taskkill /f /pid for it.  psFail: the command failed or printed nothing.
StopPortCleanup ==
    /\ pc = "sp_ps"
    /\ \E psFail \in BOOLEAN, K \in SUBSET ListenOwnerPids :
        LET pids == IF psFail THEN {} ELSE ListenOwnerPids IN
        /\ K \subseteq pids
        /\ CanonKill(K)
        /\ ProcsDie(K)
        /\ killed' = (killed \/ K # {})
        /\ killIssued' = (killIssued \/ pids # {})
        /\ killSinceProbe' = (killSinceProbe \/ pids # {})
    /\ methods_tried' = Append(methods_tried, "port cleanup")
    /\ pc' = "sp_verify"
    /\ UNCHANGED <<last_status, everProbed, status_check_running, afterQ, inRestart,
                   mode, i, round_num, killed_any, kill_report, stopped,
                   report, browserOpens, obs, entryProbe, spawns, entryDown,
                   stopVerdict, afterStart, statusRequest, npmRan>>
    /\ UNCHANGED timers
    /\ UNCHANGED unitVars

\* The message of lines 608-618 for the value of final_status.
StopReport(final_status) ==
    IF ~final_status
        THEN IF killed THEN Report("stop", "stopped", methods_tried)
                       ELSE Report("stop", "already_stopped", <<>>)
        ELSE Report("stop", "failed", <<>>)

\* Lines 603-618: time.sleep(3), the verifying probe and the message.
StopVerify ==
    /\ pc = "sp_verify"
    /\ \E in \in ProbeInputs :
        /\ check_server_status(in)
        /\ report' = StopReport(ProbeReturns(in))
        /\ stopVerdict' = IF ~inRestart THEN "none"
                          ELSE IF ProbeReturns(in) THEN "running" ELSE "stopped"
    /\ pc' = IF inRestart THEN "rs_wait" ELSE "done"
    /\ UNCHANGED <<envVars, status_check_running, afterQ, inRestart,
                   mode, locals, browserOpens, entryProbe, spawns, killIssued, entryDown,
                   afterStart, statusRequest, npmRan>>
    /\ UNCHANGED timers
    /\ UNCHANGED unitVars

\* ---------------------------------------------------------------- force kill

\* kill_report.extend / append: rep with n entries e added at its end.
AddEntries(rep, e, n) == rep \o [k \in 1..n |-> e]

\* Lines 712-716: entry of force_kill_server.
ForceKillServer(fromRestart) ==
    /\ pc' = "fk_node"
    /\ inRestart' = fromRestart
    /\ round_num' = 0
    /\ killed_any' = FALSE
    /\ kill_report' = <<>>
    /\ i' = 0
    /\ killed' = FALSE
    /\ methods_tried' = <<>>
    /\ report' = NoReport
    /\ killIssued' = FALSE
    /\ entryDown' = FALSE
    /\ stopVerdict' = "none"
    /\ afterStart' = FALSE
    /\ UNCHANGED <<statusRequest, npmRan>>
    /\ obs' = NoObs
    /\ UNCHANGED <<envVars, last_status, everProbed, status_check_running, afterQ, mode, stopped,
                   browserOpens, entryProbe, spawns, killSinceProbe>>
    /\ UNCHANGED timers
    /\ UNCHANGED unitVars

force_kill_server ==
    /\ LoopIdle
    /\ ForceKillServer(FALSE)

\* Lines 724-748, strategy 1: kill() for every process whose name holds "node".
\* K: the processes killed (the others raised NoSuchProcess/AccessDenied);
\* kill_report takes the round's entries when node_pids is not empty.
ForceKillNode ==
    /\ pc = "fk_node"
    /\ \E iterErr \in BOOLEAN, nodeOther \in BOOLEAN,
          K \in SUBSET NodePids(ProcTable(svcProcs, owner, TRUE)) :
        LET node_pids == IF iterErr THEN {}
                         ELSE NodePids(ProcTable(svcProcs, owner, nodeOther)) IN
        /\ iterErr => ~nodeOther
        /\ K \subseteq node_pids
        /\ CanonKill(K)
        /\ ProcsDie(K)
        /\ killed_any' = (killed_any \/ K # {})
        /\ kill_report' = AddEntries(kill_report, "node.exe PID", Cardinality(K))
        /\ killIssued' = (killIssued \/ node_pids # {})
        /\ killSinceProbe' = (killSinceProbe \/ node_pids # {})
    /\ pc' = "fk_npm"
    /\ UNCHANGED <<last_status, everProbed, status_check_running, afterQ, inRestart, mode, i, killed,
                   methods_tried, round_num, stopped, report, browserOpens, obs,
                   entryProbe, spawns, entryDown,
                   stopVerdict, afterStart, statusRequest, npmRan>>
    /\ UNCHANGED timers
    /\ UNCHANGED unitVars

\* Lines 750-763, strategy 2: taskkill /f /im npm.cmd /t.
ForceKillNpm ==
    /\ pc = "fk_npm"
    /\ \E hit \in BOOLEAN, K \in SUBSET TreePids :
        /\ CanonKill(K)
        /\ ProcsDie(K)
        /\ killed_any' = (killed_any \/ hit)
        /\ kill_report' = IF hit THEN AddEntries(kill_report, "npm.cmd processes", 1)
                                 ELSE kill_report
    /\ killIssued' = TRUE
    /\ killSinceProbe' = TRUE
    /\ pc' = "fk_port"
    /\ UNCHANGED <<last_status, everProbed, status_check_running, afterQ, inRestart, mode, i, killed,
                   methods_tried, round_num, stopped, report, browserOpens, obs,
                   entryProbe, spawns, entryDown,
                   stopVerdict, afterStart, statusRequest, npmRan>>
    /\ UNCHANGED timers
    /\ UNCHANGED unitVars

\* Lines 765-806, strategy 3: netstat -aon and taskkill /f /pid; its entries go
\* to round_kills only, after kill_report.extend(round_kills) has run.  Then the
\* next round, with no probe in between (time.sleep(2) if round_num < 2).
ForceKillPort ==
    /\ pc = "fk_port"
    /\ \E nsErr \in BOOLEAN, client \in BOOLEAN,
          K \in SUBSET PortKillPids(Netstat(owner, TRUE, FALSE)) :
        LET pids == IF nsErr THEN {} ELSE PortKillPids(Netstat(owner, client, FALSE)) IN
        /\ nsErr => ~client
        /\ K \subseteq pids
        /\ CanonKill(K)
        /\ ProcsDie(K)
        /\ killed_any' = (killed_any \/ K # {})
        /\ killIssued' = (killIssued \/ pids # {})
        /\ killSinceProbe' = (killSinceProbe \/ pids # {})
    /\ round_num' = round_num + 1
    /\ pc' = IF round_num + 1 < kill_rounds THEN "fk_node" ELSE "fk_verify"
    /\ UNCHANGED <<last_status, everProbed, status_check_running, afterQ, inRestart, mode, i, killed,
                   methods_tried, kill_report, stopped, report, browserOpens, obs,
                   entryProbe, spawns, entryDown,
                   stopVerdict, afterStart, statusRequest, npmRan>>
    /\ UNCHANGED timers
    /\ UNCHANGED unitVars

\* The message of lines 813-822 for the value of final_status.
ForceKillReport(final_status) ==
    IF ~final_status
        THEN IF killed_any THEN Report("force_kill", "killed", kill_report)
                           ELSE Report("force_kill", "nothing_to_kill", <<>>)
        ELSE Report("force_kill", "failed", <<>>)

\* Lines 808-828: time.sleep(3), the verifying probe and the message.  When the
\* call returns to restart_server, the locals of force_kill_server are gone.
ForceKillVerify ==
    /\ pc = "fk_verify"
    /\ \E in \in ProbeInputs :
        /\ check_server_status(in)
        /\ report' = ForceKillReport(ProbeReturns(in))
    /\ pc' = IF inRestart THEN "rs_sleep" ELSE "done"
    /\ IF inRestart
          THEN /\ round_num' = 0
               /\ killed_any' = FALSE
               /\ kill_report' = <<>>
          ELSE UNCHANGED <<round_num, killed_any, kill_report>>
    /\ UNCHANGED <<envVars, status_check_running, afterQ, inRestart, mode,
                   i, killed, methods_tried, stopped,
                   browserOpens, entryProbe, spawns, killIssued, entryDown,
                   stopVerdict, afterStart, statusRequest, npmRan>>
    /\ UNCHANGED timers
    /\ UNCHANGED unitVars

\* ---------------------------------------------------------------- restart

\* Lines 832-837: restart_server calls stop_server.
restart_server ==
    /\ LoopIdle
    /\ afterQ < MaxAfter
    /\ StopServer(TRUE)

\* RestartWait that breaks out of the loop without setting stopped.
RestartWait_ForgetsStopped ==
    /\ pc = "rs_wait"
    /\ i < restart_wait
    /\ \E in \in ProbeInputs :
        /\ check_server_status(in)
        /\ IF ~ProbeReturns(in)
              THEN /\ pc' = "rs_force"
                   /\ UNCHANGED <<i, stopped>>
              ELSE /\ i' = i + 1
                   /\ pc' = IF i + 1 = restart_wait THEN "rs_force" ELSE "rs_wait"
                   /\ UNCHANGED stopped
    /\ report' = NoReport
    /\ UNCHANGED <<envVars, status_check_running, afterQ, inRestart, mode, killed,
                   methods_tried, round_num, killed_any, kill_report, browserOpens,
                   entryProbe, spawns, killIssued, entryDown, stopVerdict, afterStart, statusRequest, npmRan>>
    /\ UNCHANGED timers
    /\ UNCHANGED unitVars

\* One iteration of the loop of lines 842-846: sleep, probe, break when the
\* probe does not return True.
RestartWait ==
    /\ pc = "rs_wait"
    /\ i < restart_wait
    /\ \E in \in ProbeInputs :
        /\ check_server_status(in)
        /\ IF ~ProbeReturns(in)
              THEN /\ stopped' = TRUE
                   /\ pc' = "rs_start"
                   /\ UNCHANGED i
              ELSE /\ i' = i + 1
                   /\ pc' = IF i + 1 = restart_wait THEN "rs_force" ELSE "rs_wait"
                   /\ UNCHANGED stopped
    /\ report' = NoReport
    /\ UNCHANGED <<envVars, status_check_running, afterQ, inRestart, mode, killed,
                   methods_tried, round_num, killed_any, kill_report, browserOpens,
                   entryProbe, spawns, killIssued, entryDown,
                   stopVerdict, afterStart, statusRequest, npmRan>>
    /\ UNCHANGED timers
    /\ UNCHANGED unitVars

\* Lines 848-850: the loop ran out with stopped false: force_kill_server.
RestartForceKill ==
    /\ pc = "rs_force"
    /\ ForceKillServer(TRUE)

\* Line 851: time.sleep(2) after the force kill.
RestartSleep ==
    /\ pc = "rs_sleep"
    /\ pc' = "rs_start"
    /\ report' = NoReport
    /\ UNCHANGED <<envVars, last_status, everProbed, status_check_running, afterQ, inRestart, mode,
                   locals, browserOpens, obs, entryProbe, spawns, killIssued, killSinceProbe,
                   entryDown,
                   stopVerdict, afterStart, statusRequest, npmRan>>
    /\ UNCHANGED timers
    /\ UNCHANGED unitVars

\* Lines 853-855: start_server_normal, whatever the stop and the force kill found.
RestartStart ==
    /\ pc = "rs_start"
    /\ StartEntry("normal")

\* ---------------------------------------------------------------- the main loop

\* The handler returns to the Tk main loop: its locals are gone.
Return ==
    /\ pc = "done"
    /\ pc' = "idle"
    /\ inRestart' = FALSE
    /\ mode' = "normal"
    /\ ResetLocals
    /\ report' = NoReport
    /\ browserOpens' = 0
    /\ entryProbe' = "none"
    /\ spawns' = 0
    /\ killIssued' = FALSE
    /\ entryDown' = FALSE
    /\ stopVerdict' = "none"
    /\ afterStart' = (report.outcome = "started")
    /\ statusRequest' = "none"
    /\ UNCHANGED npmRan
    /\ UNCHANGED <<envVars, last_status, everProbed, status_check_running, afterQ,
                   obs, killSinceProbe>>
    /\ UNCHANGED timers
    /\ UNCHANGED unitVars

Next ==
    \/ EnvBind
    \/ EnvExit
    \/ EnvSpawn
    \/ EnvWrap
    \/ CtorTick
    \/ check_initial_status
    \/ schedule_status_check
    \/ TickProbe
    \/ ClickStatus
    \/ check_status
    \/ AfterCheck
    \/ start_server_normal
    \/ start_server_silent
    \/ StartSpawn
    \/ StartPoll
    \/ StartTimeout
    \/ stop_server
    \/ debug_stop_server
    \/ StopForceKill
    \/ StopNpmKill
    \/ StopTaskkillNode
    \/ StopPortKill
    \/ StopPortCleanup
    \/ StopVerify
    \/ force_kill_server
    \/ ForceKillNode
    \/ ForceKillNpm
    \/ ForceKillPort
    \/ ForceKillVerify
    \/ restart_server
    \/ RestartWait
    \/ RestartForceKill
    \/ RestartSleep
    \/ RestartStart
    \/ Return

Spec == Init /\ [][Next]_vars

\* ---------------------------------------------------------------- the activity log

\* Line 232, int(self.log_text.index('end-1c').split('.')[0]): the line of the
\* last position of the text, which is the empty line after the newline of the
\* last entry.
LineCount(text) == Len(text) + 1

\* self.log_text.delete(f"{from}.0", f"{to}.0"): lines from to to - 1 go.
DeleteLines(text, from, to) == SubSeq(text, 1, from - 1) \o SubSeq(text, to, Len(text))

\* TrimLog that drops the newest lines in place of the oldest.
TrimLog_DropsNewest(text) ==
    IF LineCount(text) > log_limit
        THEN SubSeq(text, 1, Len(text) - (log_trim_end - 1))
        ELSE text

\* Lines 232-234: the size limit of the log.
TrimLog(text) ==
    IF LineCount(text) > log_limit
        THEN DeleteLines(text, 1, log_trim_end)
        ELSE text

\* Lines 212-237, self.log(message, level) with a message of one line: the
\* entry is inserted at the end, then the log is trimmed.  The level sets the
\* colour of the entry only.
log ==
    /\ log_calls < MaxLogCalls
    /\ log_calls' = log_calls + 1
    /\ log_text' = TrimLog(Append(log_text, log_calls + 1))
    /\ UNCHANGED <<mainVars, briefingVars, probeVars>>

LogNext == log

\* ---------------------------------------------------------------- the daily briefing

\* Lines 1597-1666, create_briefing_content: fetched says that
\* fetch_articles_data returned articles data with an 'items' key (it raised or
\* returned none otherwise).  The lists stay below the six entries
\* format_briefing shows of each.  A call works on the data it fetched alone,
\* so one call is followed.
create_briefing_content ==
    \E fetched \in BOOLEAN, items \in ItemLists :
        /\ briefing_shown = "none"
        /\ ~fetched => items = <<>>
        /\ briefing_items' = items
        /\ IF fetched
              THEN /\ briefing_shown' = "briefing"
                   /\ sections' =
                        [sec \in SectionNames |-> SectionItems(sec, items)]
              ELSE /\ briefing_shown' = "error"
                   /\ UNCHANGED sections
        /\ UNCHANGED <<mainVars, logVars, probeVars>>

BriefingNext == create_briefing_content

\* ---------------------------------------------------------------- the probe in time

\* Line 249: a call of check_server_status begins with the netstat call.
ProbeCall ==
    /\ probe_at \in {"idle", "returned"}
    /\ probe_at' = "netstat"
    /\ current_status' = "None"
    /\ probe_elapsed' = 0
    /\ call_waited' = 0
    /\ UNCHANGED <<mainVars, logVars, briefingVars>>

\* The timeout= argument of the pending OS call: 5 for subprocess.run of
\* netstat (line 258), 3 for subprocess.run of tasklist (line 291), none for
\* psutil.process_iter (line 270).
HasTimeout(at) == at \in {"netstat", "tasklist"}
TimeoutOf(at) == IF at = "netstat" THEN netstat_timeout ELSE tasklist_timeout

\* A second passes while the pending OS call has not returned.  A call with a
\* timeout is not waited for beyond it.
ProbeWait ==
    /\ probe_at \in {"netstat", "psutil", "tasklist"}
    /\ HasTimeout(probe_at) => call_waited < TimeoutOf(probe_at)
    /\ probe_elapsed < MaxProbeSeconds
    /\ probe_elapsed' = probe_elapsed + 1
    /\ call_waited' = call_waited + 1
    /\ UNCHANGED <<probe_at, current_status>>
    /\ UNCHANGED <<mainVars, logVars, briefingVars>>

\* The position after a method has left current_status at cur: method 2 runs
\* unless it is 'running' (line 267), method 3 when it is None (line 285).
AfterNetstat(cur) == IF cur # "running" THEN "psutil" ELSE "update"
AfterPsutil(cur) == IF cur = "None" THEN "tasklist" ELSE "update"

\* Lines 253-264: netstat returns before its timeout, or fails at once.
NetstatReturns ==
    \E in \in AllProbeInputs :
        /\ probe_at = "netstat"
        /\ call_waited < netstat_timeout
        /\ current_status' = Method1(in)
        /\ probe_at' = AfterNetstat(Method1(in))
        /\ call_waited' = 0
        /\ UNCHANGED probe_elapsed
        /\ UNCHANGED <<mainVars, logVars, briefingVars>>

\* Lines 258, 263-264: netstat has not returned after timeout seconds;
\* subprocess.run raises TimeoutExpired and the handler logs a warning.
NetstatTimesOut ==
    /\ probe_at = "netstat"
    /\ call_waited = netstat_timeout
    /\ probe_at' = AfterNetstat(current_status)
    /\ call_waited' = 0
    /\ UNCHANGED <<current_status, probe_elapsed>>
    /\ UNCHANGED <<mainVars, logVars, briefingVars>>

\* Lines 268-282: the process enumeration comes to its end, or raises.
PsutilReturns ==
    \E in \in AllProbeInputs :
        /\ probe_at = "psutil"
        /\ current_status' = Method2(in, current_status)
        /\ probe_at' = AfterPsutil(Method2(in, current_status))
        /\ call_waited' = 0
        /\ UNCHANGED probe_elapsed
        /\ UNCHANGED <<mainVars, logVars, briefingVars>>

\* Lines 286-296: tasklist returns before its timeout, or fails at once.
TasklistReturns ==
    \E in \in AllProbeInputs :
        /\ probe_at = "tasklist"
        /\ call_waited < tasklist_timeout
        /\ current_status' = Method3(in, current_status)
        /\ probe_at' = "update"
        /\ call_waited' = 0
        /\ UNCHANGED probe_elapsed
        /\ UNCHANGED <<mainVars, logVars, briefingVars>>

\* Lines 291, 295-296: tasklist has not returned after timeout seconds; the
\* bare except sets 'not_running'.
TasklistTimesOut ==
    /\ probe_at = "tasklist"
    /\ call_waited = tasklist_timeout
    /\ current_status' = "not_running"
    /\ probe_at' = "update"
    /\ call_waited' = 0
    /\ UNCHANGED probe_elapsed
    /\ UNCHANGED <<mainVars, logVars, briefingVars>>

\* Lines 298-326: the labels are updated and the call returns.
ProbeUpdate ==
    /\ probe_at = "update"
    /\ probe_at' = "returned"
    /\ UNCHANGED <<current_status, probe_elapsed, call_waited>>
    /\ UNCHANGED <<mainVars, logVars, briefingVars>>

ProbeNext ==
    \/ ProbeCall
    \/ ProbeWait
    \/ NetstatReturns
    \/ NetstatTimesOut
    \/ PsutilReturns
    \/ TasklistReturns
    \/ TasklistTimesOut
    \/ ProbeUpdate

\* The manager after construction, probing, with the seconds counted.
ProbeSpec == Init /\ [][ProbeNext]_vars

\* The manager after construction, generating briefings.
BriefingSpec == Init /\ [][BriefingNext]_vars

\* The manager after construction, writing to its log.
LogSpec == Init /\ [][LogNext]_vars

\* A start call that has begun goes on: Popen returns, time.sleep(1) returns and
\* every OS call of the probe returns or times out (timeout=5).
FairSpec ==
    /\ Spec
    /\ WF_vars(StartSpawn)
    /\ WF_vars(StartPoll)
    /\ WF_vars(StartTimeout)

\* ---------------------------------------------------------------- properties

\* The running handler is inside the start code (after its entry probe).
InStart == pc \in {"st_spawn", "st_poll", "st_timeout"}

\* Every detection method of the probe failed: the netstat call, the process
\* enumeration and the tasklist call.
AllMethodsFailed(o) == o.ns = "err" /\ o.ps = "err" /\ o.tl = "err"

\* C1: a stop that begins while the service is down ends with a success message,
\* has issued no kill action of any kind and has an empty list of attempts.
C1_StopIdempotent ==
    (report.op = "stop" /\ entryDown)
        => /\ report.outcome \in {"stopped", "already_stopped"}
           /\ ~killIssued
           /\ methods_tried = <<>>

\* C2: a start call probes first; when that probe returns running the call ends
\* without a spawn, and whenever the call spawns (or is about to) its entry probe
\* did not return running.
C2_SpawnOnlyAfterProbeNotRunning ==
    /\ (pc = "st_spawn" \/ spawns > 0) => entryProbe = "not_running"
    /\ pc = "st_spawn" => obs.res \notin {"running", "unprobed"}
    /\ entryProbe = "running"
          => (pc = "done" /\ spawns = 0 /\ report.outcome = "already_running")
    /\ InStart => entryProbe # "none"

\* C2 witness: a start call found the service running and returned without spawning.
C2_Witness ==
    /\ pc = "done"
    /\ report.outcome = "already_running"
    /\ entryProbe = "running"
    /\ obs.res = "running"
    /\ spawns = 0

\* C3: a probe result of running means that this check found a matching process
\* and saw the port listening; node_running means that this check found a process
\* matching name and command line and did not see the port listening.
C3_ProbeResultEvidence ==
    /\ obs.res = "running" => (obs.ns = "port" /\ obs.ps = "match")
    /\ obs.res = "node_running" => (obs.ps = "match" /\ obs.ns # "port")

\* C4: when the netstat call, the process enumeration and the tasklist call all
\* fail, the probe's result is not not_running and last_status is not set to it.
C4_AllMethodsFailIsIndeterminate ==
    AllMethodsFailed(obs)
        => (obs.res # "not_running" /\ last_status # "not_running")

\* C5: a kill run has at most kill_rounds rounds, and a round after the first
\* begins only when a probe made after the previous round showed running.
C5_ReprobeBetweenRounds ==
    /\ round_num <= kill_rounds
    /\ (pc \in {"fk_node", "fk_npm", "fk_port"} /\ round_num >= 1)
          => (obs.res = "running" /\ (pc = "fk_node" => ~killSinceProbe))

\* C6: restart calls start only after a probe, made after the last kill action,
\* that did not return running.
C6_RestartStartsOnlyWhenDown ==
    pc = "rs_start" => (~killSinceProbe /\ obs.res \notin {"running", "unprobed"})

\* C7: when the verifying probe of stop or force kill returns running, the
\* message is a failure and carries the attempts of the run.
C7_FailureCarriesAttempts ==
    /\ (report.op = "stop" /\ obs.res = "running")
          => (report.level = "error" /\ report.attempts = methods_tried)
    /\ (report.op = "force_kill" /\ obs.res = "running")
          => (report.level = "error" /\ (killed_any => report.attempts # <<>>))

\* C8: stop and force kill tell that the service is stopped, restart takes it
\* for stopped, and start spawns, never on a probe all of whose detection
\* methods failed.
C8_NoSuccessOnIndeterminate ==
    /\ (report.op \in {"stop", "force_kill"} /\ report.level \in {"success", "info"})
          => ~AllMethodsFailed(obs)
    /\ (pc = "rs_start" /\ stopped) => ~AllMethodsFailed(obs)
    /\ pc = "st_spawn" => ~AllMethodsFailed(obs)

\* C9: a start call whose spawn failed ends there with the failure message: it
\* spawned once, polled nothing and opened no browser.
C9_SpawnFailureEndsStart ==
    /\ report.outcome = "start_failed"
          => (pc = "done" /\ report.level = "error" /\ spawns = 1 /\ i = 0
              /\ browserOpens = 0 /\ obs.res # "running")
    /\ spawns <= 1
    /\ (InStart /\ pc # "st_spawn") => spawns = 1

\* C9 witness: a start call ended by a failed spawn.
C9_Witness ==
    /\ pc = "done"
    /\ report.outcome = "start_failed"
    /\ spawns = 1
    /\ entryProbe = "not_running"

\* C10: a start call whose polls ran out tells a warning, never a success, after
\* server_timeout polls that did not return running, opens no browser and
\* has issued no kill action.
C10_TimeoutLeavesProcess ==
    /\ report.outcome = "not_listening"
          => (pc = "done" /\ report.level # "success" /\ i = server_timeout
              /\ browserOpens = 0 /\ ~killIssued /\ obs.res # "running")
    /\ pc = "st_timeout" => (i = server_timeout /\ report = NoReport)
    /\ (InStart \/ report.op = "start") => ~killIssued

\* C10 witness: a start call timed out and the process it spawned is still there,
\* not listening.
C10_Witness ==
    /\ pc = "done"
    /\ report.outcome = "not_listening"
    /\ spawns = 1
    /\ svcProcs > 0
    /\ owner = "none"

\* A step of the start loop: the handler moved on from its poll position.
PollStep == pc = "st_poll" /\ (pc' # pc \/ i' # i)

\* C11: each poll of the start loop that returns running ends the call with the
\* success message, with no probe after it; each other poll is counted, the
\* loop ends after server_timeout polls, and a start call that has begun ends.
C11_StartPollsUntilRunning ==
    /\ [][PollStep =>
            IF obs'.res = "running"
                THEN /\ pc' = "done" /\ report'.outcome = "started" /\ i' = i
                     /\ i < server_timeout
                ELSE /\ i' = i + 1 /\ report' = NoReport
                     /\ pc' = IF i' = server_timeout THEN "st_timeout" ELSE "st_poll"]_vars
    /\ [][(pc = "done" /\ report.op = "start") => (obs' = obs /\ pc' = "idle")]_vars
    /\ [](pc = "st_poll" => (i < server_timeout /\ (i > 0 => obs.res # "running")))
    /\ (InStart ~> pc = "done")

\* C11 witness: the service began listening at the last poll and the start call
\* told success after server_timeout polls.
C11_Witness ==
    /\ pc = "done"
    /\ report.outcome = "started"
    /\ i = server_timeout - 1
    /\ obs.res = "running"

C13_SingleFlightStatus ==
    /\ status_check_running <=> pc = "tick"
    /\ statusRequest # "probed"

\* C14: a stop_server call made right after a start call that told success, and
\* that has brought the service down (no service process is left and nobody
\* listens on the port), ends with its verifying probe not returning running.
C14_StopAfterStartConverges ==
    (report.op = "stop" /\ afterStart /\ ServiceDown) => obs.res # "running"

\* C15: when the port was not found listening, the probe returns node_running if
\* the process enumeration found a process matching name and command line, and
\* does not return node_running if the enumeration found none.
C15_ProcessEvidence ==
    /\ obs.ps = "match" => obs.res = "node_running"
    /\ obs.ps = "nomatch" => obs.res # "node_running"

C17_ListeningPortIsRunning ==
    (obs.ns = "port" /\ obs.res # "error")
        => (obs.res = "running" /\ obs.ps = "skip" /\ obs.tl = "skip"
            /\ last_status = "running")

\* C17 witness: the port is held by a process that matches neither filter, no
\* service process exists, and the probe returned running.
C17_Witness ==
    /\ obs.ns = "port"
    /\ obs.res = "running"
    /\ svcProcs = 0
    /\ owner = "wrap"

\* The entries of methods_tried hold e.
Tried(e) == \E k \in 1..Len(methods_tried) : methods_tried[k] = e

\* C18: a stop run attempts its strategies in the fixed order and skips none:
\* once it is past the step of the forced kill by name alone (taskkill node.exe),
\* that strategy has been attempted, whatever the earlier ones reported.
C18_AllStrategiesInOrder ==
    /\ pc \in {"sp_kill", "sp_npm"} => methods_tried = <<"psutil node.exe kill">>
    /\ pc = "sp_node" => methods_tried = <<"psutil node.exe kill", "npm processes kill">>
    /\ pc \in {"sp_port", "sp_ps", "sp_verify"} => Tried("taskkill node.exe")
    /\ pc \in {"sp_ps", "sp_verify"} => Tried("port 8080 kill")

\* C19: a kill action that fails does not end the stop run or its strategy: the
\* forced-kill step follows the terminate step in every run, and all the
\* taskkill commands of the npm strategy have run when the strategy is over.
C19_FailedKillIsNotFatal ==
    /\ [][pc' = "sp_npm" => pc = "sp_kill"]_vars
    /\ [](pc = "sp_node" => npmRan = npm_images)

\* C20: the port-owner strategy kills nothing but the process that holds the
\* configured port in listening state: while nobody listens on the port, its
\* step kills no process, in stop_server and in force_kill_server.
C20_PortKillOnlyListener ==
    /\ [][(pc = "sp_port" /\ pc' = "sp_ps" /\ owner = "none" /\ ~killed) => ~killed']_vars
    /\ [][(pc = "fk_port" /\ pc' # pc /\ owner = "none" /\ ~killed_any) => ~killed_any']_vars

\* C21: the timer callback calls the probe only when the flag is clear; the flag
\* is set exactly while that probe runs and is clear when the callback returns,
\* also when the probe ended in an exception handler; and after construction
\* there is always exactly one tick, running or armed.
C21_TimerSingleFlight ==
    /\ [](status_check_running <=> pc = "tick")
    /\ [](timers + (IF pc = "tick" THEN 1 ELSE 0) = (IF pc = "ctor_tick" THEN 0 ELSE 1))
    /\ [][(pc # "tick" /\ pc' = "tick")
            => (~status_check_running /\ timers' = timers - 1 /\ obs' = obs)]_vars
    /\ [][(pc = "tick" /\ pc' # "tick")
            => (~status_check_running' /\ timers' = 1 /\ pc' = "idle")]_vars

\* C21 witness: the probe of a tick ended in an exception handler (a click made
\* meanwhile still waits), the flag is clear and the next tick is armed.
C21_Witness ==
    /\ pc = "idle"
    /\ statusRequest = "queued"
    /\ obs.res = "error"
    /\ ~status_check_running
    /\ timers = 1

\* A probe that failed: it ended in an exception handler, or every one of its
\* detection methods failed.
ProbeFailed(o) == o.res = "error" \/ AllMethodsFailed(o)

\* A step of the wait loop of restart_server: the handler moved on from its poll.
WaitStep == pc = "rs_wait" /\ (pc' # pc \/ i' # i)

\* C22: a poll of the start loop or of the wait loop of restart whose probe
\* failed counts as not yet converged: the loop is not left as converged (no
\* success message, stopped not set), the poll is counted and the next poll or
\* the end of the deadline follows.
C22_FailedProbeIsNotYetConverged ==
    /\ [][(PollStep /\ ProbeFailed(obs'))
            => (i' = i + 1 /\ report' = NoReport
                /\ pc' = IF i' = server_timeout THEN "st_timeout" ELSE "st_poll")]_vars
    /\ [][(WaitStep /\ ProbeFailed(obs'))
            => (i' = i + 1 /\ ~stopped'
                /\ pc' = IF i' = restart_wait THEN "rs_force" ELSE "rs_wait")]_vars

\* C23: last_status is None at construction; after every probe that ran to its
\* end it holds that probe's result; and a step that changes it is a probe, so
\* start, stop, force kill, restart and the timer callback write it only
\* through the probes they call.
C23_LastStatusWrittenByProbe ==
    /\ [](pc = "ctor_tick" => last_status = "None")
    /\ [](obs.res \notin {"unprobed", "error"} => last_status = obs.res)
    /\ [][last_status' # last_status
            => (obs'.res = last_status' /\ ~killSinceProbe'
                /\ pc \notin {"st_spawn", "st_timeout", "sp_kill", "sp_npm", "sp_node",
                              "sp_port", "sp_ps", "fk_node", "fk_npm", "fk_port",
                              "rs_force", "rs_sleep", "done"}
                /\ (pc = "idle" /\ pc' # pc) => pc' \in {"st_spawn", "done"})]_vars

\* C23 witness: a stop made after a successful start has ended, and its
\* verifying probe, which found nothing, has overwritten last_status.
C23_Witness ==
    /\ pc = "done"
    /\ report.op = "stop"
    /\ afterStart
    /\ obs.res = "None"
    /\ last_status = "None"

\* C25: a start call opens the browser at most once, and only in a poll of
\* start_server_normal, made after the spawn, whose probe returned running;
\* start_server_silent, a start that timed out, a start whose spawn failed and
\* a start that found the service running have opened no browser.
C25_BrowserOnlyAfterConfirmedStart ==
    /\ [](browserOpens <= 1)
    /\ [][browserOpens' > browserOpens
            => (pc = "st_poll" /\ mode = "normal" /\ spawns = 1 /\ browserOpens = 0
                /\ obs'.res = "running" /\ report'.outcome = "started")]_vars
    /\ [](browserOpens = 1
            => (pc = "done" /\ mode = "normal" /\ report.outcome = "started"
                /\ obs.res = "running"))
    /\ [](mode = "silent" => browserOpens = 0)
    /\ [](report.outcome \in {"not_listening", "start_failed", "already_running"}
            => browserOpens = 0)

\* C25 witness: start_server_normal saw the service listening in a poll other
\* than the first and has opened the browser once.
C25_Witness ==
    /\ pc = "done"
    /\ mode = "normal"
    /\ report.outcome = "started"
    /\ i > 0
    /\ spawns = 1
    /\ browserOpens = 1

\* C28: the probe takes running from the netstat listing only when some single
\* line shows the configured port as local port in LISTENING state: a listing
\* where the port token and the word LISTENING are on different lines only does
\* not give running.
C28_RunningNeedsListeningLine ==
    (obs.ns = "cross" /\ obs.res # "error") => obs.res # "running"

\* C30: a start call does not spawn when its entry probe found a process that
\* matches the service's name and command line (node_running): it is about to
\* spawn only when no service process was found.
C30_NoSecondSpawn ==
    pc = "st_spawn" => ~(obs.res = "node_running" /\ obs.ps = "match")

\* C29: a probe writes its status line only when the state it found differs
\* from the state the previous probe found: no probe writes the line of a state
\* that the last probe that ran to its end had found too.
C29_StatusLineOncePerState ==
    ~obs.relog

\* C26: after every log() call the log holds at most log_limit lines, and it
\* holds exactly the newest entries in the order written: the entry just
\* written is the last one, the entries before it are there without a gap, and
\* at least log_limit - log_trim_end + 1 of them are kept once that many exist.
C26_LogBounded ==
    /\ LineCount(log_text) <= log_limit
    /\ \A k \in 1..Len(log_text) : log_text[k] = log_calls - Len(log_text) + k
    /\ log_calls >= log_limit - log_trim_end + 1
          => Len(log_text) >= log_limit - log_trim_end + 1
    /\ log_calls < log_limit => Len(log_text) = log_calls

\* C26 witness: the call that made the log exceed the limit has trimmed it; the
\* oldest lines are gone and the entry just written is the last.
C26_Witness ==
    /\ log_calls = log_limit
    /\ Len(log_text) = log_limit - log_trim_end + 1
    /\ log_text[1] = log_trim_end
    /\ log_text[Len(log_text)] = log_calls

\* The instant a pubDate names, in hours on the clock of the host, which is
\* taken to run on UTC: the wall-clock hour less the offset of the zone.
InstantOf(str) == str.wall - (IF str.zone = "-05:00" THEN -5 ELSE 0)

\* C27: an article placed in a section of the briefing has a pubDate that
\* cannot be parsed as a timestamp, or one that names an instant at most
\* two_days hours before now, whether the timestamp has a Z suffix, an offset
\* or no zone.
C27_OnlyRecentInBriefing ==
    \A sec \in SectionNames : \A k \in 1..Len(sections[sec]) :
        LET str == sections[sec][k].pubDate IN
        str.text = "iso" => Now - InstantOf(str) <= two_days
\* C24: a probe that has been called has taken at most the sum of the timeouts
\* of its methods, whether it has returned or is still waiting for an OS call.
C24_ProbeBounded ==
    probe_at # "idle" => probe_elapsed <= netstat_timeout + tasklist_timeout
====
